---- MODULE Spec2Model ----
(***************************************************************************)
(* The sale-and-return ledger of the inventory system: the POST /api/sales *)
(* transaction, POST /api/returns, PUT /api/returns/:id, and the           *)
(* transaction scope of DatabaseWrapper, run by concurrent request         *)
(* handlers against one PostgreSQL database (READ COMMITTED, row locks).   *)
(*                                                                         *)
(* Money is counted in half-cents, so that a client-supplied amount with   *)
(* three decimals (0.005) is representable; a DECIMAL(10,2) column stores  *)
(* a whole number of cents, i.e. an even number of half-cents.             *)
(***************************************************************************)
EXTENDS Integers, Sequences, FiniteSets, TLC

VARIABLES
    db,        \* committed rows: table name -> (row id -> row)
    seq,       \* SERIAL sequences: table name -> last value handed out
    tx,        \* per handler: uncommitted writes of its open transaction
    locks,     \* per handler: row locks (and unique-key locks) it holds
    pc,        \* per handler: the statement it executes next
    loc,       \* per handler: the local variables of the running handler
    resp,      \* the HTTP response sent last, with the handler that sent it
    started,   \* number of requests issued so far, per operation
    reversals  \* history: return id -> number of committed financial reversals

vars == <<db, seq, tx, locks, pc, loc, resp, started, reversals>>

\* ------------------------------------------------------------------ bounds
InitQuantity == 2     \* stock of every inventory item at start
MaxQuantity == 2      \* largest quantity a sale line or return line asks for
MaxLines == 2         \* most line items in one sale request
MaxSales == 2         \* createSale requests issued in one behaviour of SpecSale
MaxLedgerSales == 1   \* createSale requests issued in one behaviour of Spec
MaxReturns == 2       \* createReturn requests issued in one behaviour
MaxUpdates == 2       \* updateReturnStatus requests issued in one behaviour of Spec
MaxSeqUpdates == 3    \* updateReturnStatus requests issued in one behaviour of SpecSeq

MaxLiveSales == 2     \* createSale requests issued in one behaviour of SpecLive
MaxLiveReturns == 1   \* createReturn requests issued in one behaviour of SpecLive
MaxLiveUpdates == 2   \* updateReturnStatus requests issued in one behaviour of SpecLive
MaxLifetimeSales == 2  \* createSale requests issued in one behaviour of SpecLifetime
MaxLifetimeReturns == 1 \* createReturn requests issued in one behaviour of SpecLifetime
MaxLifetimeUpdates == 1 \* updateReturnStatus requests issued in one behaviour of SpecLifetime
MaxApproveRows == 2    \* approveReturn starts while fewer returned_items rows exist
MaxApproveUpdates == 2 \* updateReturnStatus requests issued in one behaviour of SpecApprove
MaxAmountUpdates == 1  \* updateReturnStatus requests issued in one behaviour of SpecAmounts
MaxAuthSales == 2      \* createSale requests issued in one behaviour of SpecAuth
MaxAuthReturns == 1    \* createReturn requests issued in one behaviour of SpecAuth
MaxProfitSales == 2    \* sale rows the profit summary is computed over
MaxDay == 2            \* sale dates and date filters are the days 1..MaxDay
MaxGatewayReturns == 1 \* returns created before the gateway calls
MaxGatewayRows == 3   \* gateway calls start while fewer rows than this were inserted

Procs == {"h1", "h2"}                 \* concurrent request handlers
Tables == {"inventory", "sales", "returns", "returned_items", "customers"}

\* ------------------------------------------------------- tables and rows
EmptyTable == [k \in {} |-> {}]
Deleted == [deleted |-> TRUE]
NoWrites == [t \in Tables |-> EmptyTable]

\* a table with the uncommitted writes of one transaction laid over it
Overlay(tbl, ov) ==
    LET keys == (DOMAIN tbl \cup DOMAIN ov) \ {k \in DOMAIN ov : ov[k] = Deleted}
    IN  [k \in keys |-> IF k \in DOMAIN ov THEN ov[k] ELSE tbl[k]]

Put(f, k, v) == [j \in DOMAIN f \cup {k} |-> IF j = k THEN v ELSE f[j]]

\* what the statements of handler p's transaction read: committed rows plus
\* its own writes (READ COMMITTED)
View(p, t) == Overlay(db[t], tx[p][t])

\* DECIMAL(10, 2): numeric rounds to two decimals, ties away from zero
ToDecimal2(x) == IF x % 2 = 0 THEN x ELSE IF x > 0 THEN x + 1 ELSE x - 1

RECURSIVE PadStart(_, _)
PadStart(s, n) == IF Len(s) >= n THEN s ELSE PadStart("0" \o s, n)

\* `TRN-${String(result.lastInsertRowid).padStart(5, '0')}`
InvoiceNumberUnpadded(id) == "TRN-" \o ToString(id)
InvoiceNumber(id) == "TRN-" \o PadStart(ToString(id), 5)

\* ------------------------------------------------------------ row locks
LockedByOther(p, l) == \E q \in Procs \ {p} : l \in locks[q]

\* ------------------------------------------------------- initial content
InitInventory ==
    1 :> [sku |-> "SKU-A", quantity |-> InitQuantity, cost_price |-> 2, price |-> 4]
    @@ 2 :> [sku |-> "SKU-B", quantity |-> InitQuantity, cost_price |-> 4, price |-> 6]

InitCustomers == 1 :> [lifetime_value |-> 0]

NoLoc == [op |-> "none"]
NoError == [error |-> "none"]

Init ==
    /\ db = [t \in Tables |->
               CASE t = "inventory" -> InitInventory
                 [] t = "customers" -> InitCustomers
                 [] OTHER -> EmptyTable]
    /\ seq = [sales |-> 0, returns |-> 0, returned_items |-> 0]
    /\ tx = [p \in Procs |-> NoWrites]
    /\ locks = [p \in Procs |-> {}]
    /\ pc = [p \in Procs |-> "idle"]
    /\ loc = [p \in Procs |-> NoLoc]
    /\ resp = [status |-> 0, handler |-> "none", op |-> "none", message |-> NoError]
    /\ started = [sale |-> 0, return |-> 0, update |-> 0]
    /\ reversals = EmptyTable

\* ------------------------------------------------- transaction scope
\* a statement that has to wait for a row lock held by another transaction
Blocked(p, need) == \E l \in need : LockedByOther(p, l)

\* catch (error) { await client.query('ROLLBACK') }: the committed rows a
\* rolled-back transaction leaves behind
RollbackKeepsWrites(d, writes) == [t \in Tables |-> Overlay(d[t], writes[t])]
Rollback(d, writes) == d

\* await client.query('COMMIT'): the committed rows after the transaction
Commit(d, writes) == [t \in Tables |-> Overlay(d[t], writes[t])]

\* an error thrown inside fn leaves for the catch block of transaction()
ThrowThenCommit(p, err) ==
    /\ loc' = [loc EXCEPT ![p].error = err]
    /\ pc' = [pc EXCEPT ![p] = "commit"]
Throw(p, err) ==
    /\ loc' = [loc EXCEPT ![p].error = err]
    /\ pc' = [pc EXCEPT ![p] = "rollback"]

\* ------------------------------------------------ POST /api/sales
\* SELECT ... FOR UPDATE: the row locks the statement takes
NoRowLock(l) == {}
ForUpdate(l) == {l}

\* if (inventoryItem.quantity < item.quantity) throw
StockCheckOffByOne(inventoryItem, item) == inventoryItem.quantity + 1 < item.quantity
InsufficientStock(inventoryItem, item) == inventoryItem.quantity < item.quantity

\* const actualPrice = item.actualPrice !== undefined ? item.actualPrice : item.price
ActualPrice(item) ==
    IF "actualPrice" \in DOMAIN item THEN item.actualPrice ELSE item.price

CurrentLine(p) == loc[p].parsedItems[loc[p].i]

\* the unique index on sales.invoice_number: an INSERT of a key that another
\* open transaction has inserted waits for that transaction to end
TempKey == <<"sales_invoice_number_key", "TEMP">>

\* the rows of table t, as handler p's transaction sees them, that satisfy a
\* WHERE clause
RowsWhere(p, t, Cond(_)) == {k \in DOMAIN View(p, t) : Cond(View(p, t)[k])}

\* the row locks the next statement of handler p has to hold: those of a
\* SELECT ... FOR UPDATE, and those of the rows an UPDATE or DELETE changes
Needs(p) ==
    CASE pc[p] = "sale_select" ->
           IF CurrentLine(p).itemId \in DOMAIN View(p, "inventory")
           THEN ForUpdate(<<"inventory", CurrentLine(p).itemId>>) ELSE {}
      [] pc[p] = "sale_update" -> {<<"inventory", CurrentLine(p).itemId>>}
      [] pc[p] = "sale_insert" -> {TempKey}
      [] pc[p] \in {"upd_approve_items", "upd_delete_items"} ->
           LET OfReturn(r) == r.return_id = loc[p].body.returnId
           IN  {<<"returned_items", k>> : k \in RowsWhere(p, "returned_items", OfReturn)}
      [] pc[p] = "upd_select_sale" ->
           LET OfInvoice(s) == s.invoice_number = loc[p].returnRecord.invoice_number
           IN  UNION {ForUpdate(<<"sales", k>>) : k \in RowsWhere(p, "sales", OfInvoice)}
      [] pc[p] = "upd_sale" ->
           LET OfInvoice(s) == s.invoice_number = loc[p].returnRecord.invoice_number
           IN  {<<"sales", k>> : k \in RowsWhere(p, "sales", OfInvoice)}
      [] pc[p] = "upd_customer" ->
           {<<"customers", k>> : k \in {loc[p].sale.customer_id} \cap DOMAIN View(p, "customers")}
      [] pc[p] = "upd_return" -> {<<"returns", loc[p].body.returnId>>}
      [] OTHER -> {}

\* the handler is entered; db.transaction() opens a connection and BEGINs
CreateSale_Begin(p, bodies, max) ==
    /\ pc[p] = "idle"
    /\ started.sale < max
    /\ \E body \in bodies :
         loc' = [loc EXCEPT ![p] =
                   [op |-> "sale", body |-> body, parsedItems |-> body.items,
                    i |-> 1, totalCost |-> 0, totalDiscount |-> 0,
                    inventoryItem |-> NoLoc, lastInsertRowid |-> 0,
                    error |-> NoError, result |-> NoLoc]]
    /\ pc' = [pc EXCEPT ![p] = "sale_select"]
    /\ started' = [started EXCEPT !.sale = @ + 1]
    /\ UNCHANGED <<db, seq, tx, locks, resp, reversals>>

\* SELECT * FROM inventory WHERE id = ? FOR UPDATE, the two checks, and the
\* cost and discount of the line
CreateSale_SelectForUpdate(p) ==
    /\ pc[p] = "sale_select"
    /\ LET item == CurrentLine(p)
           itemId == item.itemId
           inv == View(p, "inventory")
       IN  IF itemId \notin DOMAIN inv
           THEN /\ Throw(p, [error |-> "ItemNotFound", itemId |-> itemId])
                /\ UNCHANGED locks
           ELSE LET need == Needs(p)
                    inventoryItem == inv[itemId]
                    itemCost == inventoryItem.cost_price * item.quantity
                    actualPrice == ActualPrice(item)
                    systemPrice == inventoryItem.price
                    itemDiscount == (systemPrice - actualPrice) * item.quantity
                IN  /\ ~Blocked(p, need)
                    /\ locks' = [locks EXCEPT ![p] = @ \cup need]
                    /\ IF InsufficientStock(inventoryItem, item)
                       THEN Throw(p, [error |-> "InsufficientStock", itemId |-> itemId,
                                      available |-> inventoryItem.quantity,
                                      requested |-> item.quantity])
                       ELSE /\ loc' = [loc EXCEPT
                                 ![p].totalCost = @ + itemCost,
                                 ![p].totalDiscount = @ + itemDiscount,
                                 ![p].inventoryItem = inventoryItem,
                                 ![p].parsedItems[loc[p].i] =
                                     [itemId |-> itemId, sku |-> item.sku,
                                      quantity |-> item.quantity, price |-> item.price,
                                      systemPrice |-> systemPrice,
                                      actualPrice |-> actualPrice,
                                      discount |-> itemDiscount,
                                      costPrice |-> inventoryItem.cost_price]]
                            /\ pc' = [pc EXCEPT ![p] = "sale_update"]
    /\ UNCHANGED <<db, seq, tx, resp, started, reversals>>

\* const newQuantity = inventoryItem.quantity - item.quantity;
\* UPDATE inventory SET quantity = ? WHERE id = ?
CreateSale_UpdateInventory(p) ==
    /\ pc[p] = "sale_update"
    /\ LET item == CurrentLine(p)
           need == Needs(p)
           newQuantity == loc[p].inventoryItem.quantity - item.quantity
           row == View(p, "inventory")[item.itemId]
       IN  /\ ~Blocked(p, need)
           /\ locks' = [locks EXCEPT ![p] = @ \cup need]
           /\ tx' = [tx EXCEPT ![p].inventory =
                       Put(@, item.itemId, [row EXCEPT !.quantity = newQuantity])]
    /\ loc' = [loc EXCEPT ![p].i = @ + 1]
    /\ pc' = [pc EXCEPT ![p] =
                IF loc[p].i + 1 > Len(loc[p].parsedItems) THEN "sale_insert"
                                                          ELSE "sale_select"]
    /\ UNCHANGED <<db, seq, resp, started, reversals>>

\* const profit = saleData.total - totalCost; INSERT INTO sales (...) with
\* invoice number 'TEMP'; lastval() gives the new id
CreateSale_InsertSale(p) ==
    /\ pc[p] = "sale_insert"
    /\ ~Blocked(p, Needs(p))
    /\ LET saleData == loc[p].body
           totalCost == loc[p].totalCost
           totalDiscount == loc[p].totalDiscount
           profit == saleData.total - totalCost
           id == seq.sales + 1
           sales == View(p, "sales")
       IN  /\ seq' = [seq EXCEPT !.sales = id]
           /\ IF \E k \in DOMAIN sales : sales[k].invoice_number = "TEMP"
              THEN /\ Throw(p, [error |-> "UniqueViolation"])
                   /\ UNCHANGED <<tx, locks>>
              ELSE /\ tx' = [tx EXCEPT ![p].sales = Put(@, id,
                               [id |-> id, invoice_number |-> "TEMP",
                                customer_id |-> saleData.customer_id,
                                items |-> loc[p].parsedItems,
                                total |-> ToDecimal2(saleData.total),
                                total_cost |-> ToDecimal2(totalCost),
                                total_discount |-> ToDecimal2(totalDiscount),
                                profit |-> ToDecimal2(profit),
                                status |-> saleData.status])]
                   /\ locks' = [locks EXCEPT ![p] = @ \cup Needs(p) \cup {<<"sales", id>>}]
                   /\ loc' = [loc EXCEPT ![p].lastInsertRowid = id,
                                         ![p].result = [totalCost |-> totalCost,
                                                        totalDiscount |-> totalDiscount,
                                                        profit |-> profit]]
                   /\ pc' = [pc EXCEPT ![p] = "sale_invoice"]
    /\ UNCHANGED <<db, resp, started, reversals>>

\* UPDATE sales SET invoice_number = ? WHERE id = ?
CreateSale_UpdateInvoiceNumber(p) ==
    /\ pc[p] = "sale_invoice"
    /\ LET id == loc[p].lastInsertRowid
           invoiceNumber == InvoiceNumber(id)
           row == View(p, "sales")[id]
       IN  /\ tx' = [tx EXCEPT ![p].sales =
                       Put(@, id, [row EXCEPT !.invoice_number = invoiceNumber])]
           /\ loc' = [loc EXCEPT ![p].result =
                       [id |-> id, invoiceNumber |-> invoiceNumber] @@ @]
    /\ pc' = [pc EXCEPT ![p] = "commit"]
    /\ UNCHANGED <<db, seq, locks, resp, started, reversals>>

\* ------------------------------------------------ POST /api/returns
\* const existingReturn = await db.get('SELECT * FROM returns WHERE
\* invoice_number = ?'); if (existingReturn) return res.status(400)
ExistingPendingReturn(returns, invoice_number) ==
    \E k \in DOMAIN returns : /\ returns[k].invoice_number = invoice_number
                              /\ returns[k].status = "pending"
ExistingReturn(returns, invoice_number) ==
    \E k \in DOMAIN returns : returns[k].invoice_number = invoice_number

\* the handler is entered with a body that passed the validators, and makes
\* the duplicate check on the pool, before any transaction is opened
CreateReturn_CheckExisting(p, bodies, max) ==
    /\ pc[p] = "idle"
    /\ started.return < max
    /\ started' = [started EXCEPT !.return = @ + 1]
    /\ \E body \in bodies :
         IF ExistingReturn(db.returns, body.invoice_number)
         THEN /\ resp' = [status |-> 400, handler |-> p, op |-> "return",
                          message |-> [error |-> "DuplicateReturn"]]
              /\ UNCHANGED <<loc, pc>>
         ELSE /\ loc' = [loc EXCEPT ![p] =
                           [op |-> "return", body |-> body, i |-> 1, returnId |-> 0,
                            error |-> NoError, result |-> NoLoc]]
              /\ pc' = [pc EXCEPT ![p] = "ret_insert"]
              /\ UNCHANGED resp
    /\ UNCHANGED <<db, seq, tx, locks, reversals>>

\* INSERT INTO returns (...) with the status of the request body
CreateReturn_InsertReturn(p) ==
    /\ pc[p] = "ret_insert"
    /\ LET returnData == loc[p].body
           returnId == seq.returns + 1
       IN  /\ seq' = [seq EXCEPT !.returns = returnId]
           /\ tx' = [tx EXCEPT ![p].returns = Put(@, returnId,
                       [id |-> returnId,
                        invoice_number |-> returnData.invoice_number,
                        invoice_id |-> returnData.invoice_id,
                        customer_id |-> returnData.customer_id,
                        amount |-> ToDecimal2(returnData.amount),
                        status |-> returnData.status,
                        items |-> returnData.items])]
           /\ locks' = [locks EXCEPT ![p] = @ \cup {<<"returns", returnId>>}]
           /\ loc' = [loc EXCEPT ![p].returnId = returnId,
                                 ![p].result = [id |-> returnId, success |-> TRUE]]
    /\ pc' = [pc EXCEPT ![p] = "ret_item"]
    /\ UNCHANGED <<db, resp, started, reversals>>

\* for (const item of returnData.items) INSERT INTO returned_items (...)
CreateReturn_InsertReturnedItem(p) ==
    /\ pc[p] = "ret_item"
    /\ LET item == loc[p].body.items[loc[p].i]
           id == seq.returned_items + 1
       IN  /\ seq' = [seq EXCEPT !.returned_items = id]
           /\ tx' = [tx EXCEPT ![p].returned_items = Put(@, id,
                       [id |-> id, return_id |-> loc[p].returnId, sku |-> item.sku,
                        quantity |-> item.quantity, condition |-> "returned"])]
           /\ locks' = [locks EXCEPT ![p] = @ \cup {<<"returned_items", id>>}]
    /\ loc' = [loc EXCEPT ![p].i = @ + 1]
    /\ pc' = [pc EXCEPT ![p] =
                IF loc[p].i + 1 > Len(loc[p].body.items) THEN "commit" ELSE "ret_item"]
    /\ UNCHANGED <<db, resp, started, reversals>>

\* ------------------------------------------------ PUT /api/returns/:id
\* if (updateData.status === 'approved' && returnRecord.status !== 'approved')
ApproveUnguarded(status, returnRecord) == status = "approved"
ApprovalApplies(status, returnRecord) ==
    status = "approved" /\ returnRecord.status # "approved"

\* if (updateData.status === 'rejected' && returnRecord.status !== 'rejected')
RejectionOfApprovedOnly(status, returnRecord) ==
    status = "rejected" /\ returnRecord.status = "approved"
RejectionApplies(status, returnRecord) ==
    status = "rejected" /\ returnRecord.status # "rejected"

\* the handler is entered and opens its transaction; const returnRecord =
\* await tx.get('SELECT * FROM returns WHERE id = ?'); throw if not found
UpdateReturnStatus_GetReturn(p, bodies, max) ==
    /\ pc[p] = "idle"
    /\ started.update < max
    /\ started' = [started EXCEPT !.update = @ + 1]
    /\ \E body \in bodies :
         LET returns == View(p, "returns")
             found == body.returnId \in DOMAIN returns
             returnRecord == IF found THEN returns[body.returnId] ELSE NoLoc
         IN  /\ loc' = [loc EXCEPT ![p] =
                   [op |-> "update", body |-> body, returnRecord |-> returnRecord,
                    sale |-> NoLoc, reversed |-> FALSE,
                    error |-> IF found THEN NoError ELSE [error |-> "ReturnNotFound"],
                    result |-> NoLoc]]
             /\ pc' = [pc EXCEPT ![p] =
                  IF ~found THEN "rollback"
                  ELSE IF ApprovalApplies(body.status, returnRecord)
                       THEN "upd_approve_items"
                       ELSE IF RejectionApplies(body.status, returnRecord)
                            THEN "upd_delete_items" ELSE "upd_return"]
    /\ UNCHANGED <<db, seq, tx, locks, resp, reversals>>

\* UPDATE returned_items SET condition = 'approved' WHERE return_id = ?
\* (the statement touches returned_items only; a variant that also puts the
\* returned units back on the shelf is what the code does not do)
UpdateReturnStatus_ApproveItemsRestocking(p) ==
    /\ pc[p] = "upd_approve_items"
    /\ ~Blocked(p, Needs(p))
    /\ locks' = [locks EXCEPT ![p] = @ \cup Needs(p)]
    /\ LET items == View(p, "returned_items")
           hit == {k \in DOMAIN items : items[k].return_id = loc[p].body.returnId}
           inv == View(p, "inventory")
           back == {i \in DOMAIN inv : \E k \in hit : items[k].sku = inv[i].sku}
       IN  tx' = [tx EXCEPT
                    ![p].returned_items =
                       [k \in DOMAIN @ \cup hit |->
                          IF k \in hit THEN [items[k] EXCEPT !.condition = "approved"]
                                       ELSE @[k]],
                    ![p].inventory =
                       [i \in DOMAIN @ \cup back |->
                          IF i \in back THEN [inv[i] EXCEPT !.quantity = @ + 1]
                                        ELSE @[i]]]
    /\ pc' = [pc EXCEPT ![p] = "upd_select_sale"]
    /\ UNCHANGED <<db, seq, loc, resp, started, reversals>>
UpdateReturnStatus_ApproveItems(p) ==
    /\ pc[p] = "upd_approve_items"
    /\ ~Blocked(p, Needs(p))
    /\ locks' = [locks EXCEPT ![p] = @ \cup Needs(p)]
    /\ LET items == View(p, "returned_items")
           hit == {k \in DOMAIN items : items[k].return_id = loc[p].body.returnId}
       IN  tx' = [tx EXCEPT ![p].returned_items =
                    [k \in DOMAIN @ \cup hit |->
                       IF k \in hit THEN [items[k] EXCEPT !.condition = "approved"]
                                    ELSE @[k]]]
    /\ pc' = [pc EXCEPT ![p] = "upd_select_sale"]
    /\ UNCHANGED <<db, seq, loc, resp, started, reversals>>

\* const sale = await tx.get('SELECT * FROM sales WHERE invoice_number = ?
\* FOR UPDATE'); if (sale) { ... }
UpdateReturnStatus_SelectSaleForUpdate(p) ==
    /\ pc[p] = "upd_select_sale"
    /\ ~Blocked(p, Needs(p))
    /\ locks' = [locks EXCEPT ![p] = @ \cup Needs(p)]
    /\ LET sales == View(p, "sales")
           hit == {k \in DOMAIN sales :
                     sales[k].invoice_number = loc[p].returnRecord.invoice_number}
       IN  IF hit = {}
           THEN /\ pc' = [pc EXCEPT ![p] = "upd_return"]
                /\ UNCHANGED loc
           ELSE /\ loc' = [loc EXCEPT ![p].sale = sales[CHOOSE k \in hit : TRUE]]
                /\ pc' = [pc EXCEPT ![p] = "upd_sale"]
    /\ UNCHANGED <<db, seq, tx, resp, started, reversals>>

\* for (const returnedItem of returnedItems) { const originalItem =
\* saleItems.find(si => si.sku === returnedItem.sku); if (originalItem &&
\* originalItem.costPrice) returnedCost += costPrice * returnedItem.quantity }
RECURSIVE ReturnedCostAtPrice(_, _)
ReturnedCostAtPrice(returnedItems, saleItems) ==
    IF returnedItems = <<>> THEN 0
    ELSE LET returnedItem == Head(returnedItems)
             found == {j \in 1..Len(saleItems) : saleItems[j].sku = returnedItem.sku}
             first == CHOOSE j \in found : \A j2 \in found : j <= j2
         IN  (IF found # {} /\ saleItems[first].price # 0
              THEN saleItems[first].price * returnedItem.quantity ELSE 0)
             + ReturnedCostAtPrice(Tail(returnedItems), saleItems)
RECURSIVE ReturnedCost(_, _)
ReturnedCost(returnedItems, saleItems) ==
    IF returnedItems = <<>> THEN 0
    ELSE LET returnedItem == Head(returnedItems)
             found == {j \in 1..Len(saleItems) : saleItems[j].sku = returnedItem.sku}
             first == CHOOSE j \in found : \A j2 \in found : j <= j2
         IN  (IF found # {} /\ saleItems[first].costPrice # 0
              THEN saleItems[first].costPrice * returnedItem.quantity ELSE 0)
             + ReturnedCost(Tail(returnedItems), saleItems)

\* newTotal, newTotalCost, newProfit; UPDATE sales SET total = ?, total_cost
\* = ?, profit = ?, status = 'returned' WHERE invoice_number = ?
UpdateReturnStatus_UpdateSale(p) ==
    /\ pc[p] = "upd_sale"
    /\ ~Blocked(p, Needs(p))
    /\ locks' = [locks EXCEPT ![p] = @ \cup Needs(p)]
    /\ LET sale == loc[p].sale
           returnRecord == loc[p].returnRecord
           returnedCost == ReturnedCost(returnRecord.items, sale.items)
           newTotal == sale.total - returnRecord.amount
           newTotalCost == sale.total_cost - returnedCost
           newProfit == newTotal - newTotalCost
           sales == View(p, "sales")
           hit == {k \in DOMAIN sales :
                     sales[k].invoice_number = returnRecord.invoice_number}
       IN  tx' = [tx EXCEPT ![p].sales =
                    [k \in DOMAIN @ \cup hit |->
                       IF k \in hit
                       THEN [sales[k] EXCEPT !.total = ToDecimal2(newTotal),
                                             !.total_cost = ToDecimal2(newTotalCost),
                                             !.profit = ToDecimal2(newProfit),
                                             !.status = "returned"]
                       ELSE @[k]]]
    /\ loc' = [loc EXCEPT ![p].reversed = TRUE]
    /\ pc' = [pc EXCEPT ![p] =
                IF loc[p].sale.customer_id # 0 THEN "upd_customer" ELSE "upd_return"]
    /\ UNCHANGED <<db, seq, resp, started, reversals>>

\* if (sale.customer_id) UPDATE customers SET lifetime_value =
\* lifetime_value - ? WHERE id = ?
UpdateReturnStatus_UpdateCustomerCredits(p) ==
    /\ pc[p] = "upd_customer"
    /\ ~Blocked(p, Needs(p))
    /\ locks' = [locks EXCEPT ![p] = @ \cup Needs(p)]
    /\ LET customers == View(p, "customers")
           id == loc[p].sale.customer_id
       IN  tx' = IF id \in DOMAIN customers
                 THEN [tx EXCEPT ![p].customers = Put(@, id,
                         [customers[id] EXCEPT !.lifetime_value =
                            ToDecimal2(@ + loc[p].returnRecord.amount)])]
                 ELSE tx
    /\ pc' = [pc EXCEPT ![p] = "upd_return"]
    /\ UNCHANGED <<db, seq, loc, resp, started, reversals>>
UpdateReturnStatus_UpdateCustomer(p) ==
    /\ pc[p] = "upd_customer"
    /\ ~Blocked(p, Needs(p))
    /\ locks' = [locks EXCEPT ![p] = @ \cup Needs(p)]
    /\ LET customers == View(p, "customers")
           id == loc[p].sale.customer_id
       IN  tx' = IF id \in DOMAIN customers
                 THEN [tx EXCEPT ![p].customers = Put(@, id,
                         [customers[id] EXCEPT !.lifetime_value =
                            ToDecimal2(@ - loc[p].returnRecord.amount)])]
                 ELSE tx
    /\ pc' = [pc EXCEPT ![p] = "upd_return"]
    /\ UNCHANGED <<db, seq, loc, resp, started, reversals>>

\* DELETE FROM returned_items WHERE return_id = ?
UpdateReturnStatus_DeleteItems(p) ==
    /\ pc[p] = "upd_delete_items"
    /\ ~Blocked(p, Needs(p))
    /\ locks' = [locks EXCEPT ![p] = @ \cup Needs(p)]
    /\ LET items == View(p, "returned_items")
           hit == {k \in DOMAIN items : items[k].return_id = loc[p].body.returnId}
       IN  tx' = [tx EXCEPT ![p].returned_items =
                    [k \in DOMAIN @ \cup hit |-> IF k \in hit THEN Deleted ELSE @[k]]]
    /\ pc' = [pc EXCEPT ![p] = "upd_return"]
    /\ UNCHANGED <<db, seq, loc, resp, started, reversals>>

\* UPDATE returns SET status = ?, approved_by = ?, ... WHERE id = ?
UpdateReturnStatus_UpdateReturn(p) ==
    /\ pc[p] = "upd_return"
    /\ ~Blocked(p, Needs(p))
    /\ locks' = [locks EXCEPT ![p] = @ \cup Needs(p)]
    /\ LET id == loc[p].body.returnId
           returns == View(p, "returns")
       IN  tx' = [tx EXCEPT ![p].returns =
                    Put(@, id, [returns[id] EXCEPT !.status = loc[p].body.status])]
    /\ loc' = [loc EXCEPT ![p].result = [success |-> TRUE]]
    /\ pc' = [pc EXCEPT ![p] = "commit"]
    /\ UNCHANGED <<db, seq, resp, started, reversals>>

\* ------------------------------------------- end of a transaction
Reversed(p) == loc[p].op = "update" /\ loc[p].reversed

\* COMMIT; client.release(); res.json(result)
Transaction_Commit(p) ==
    /\ pc[p] = "commit"
    /\ db' = Commit(db, tx[p])
    /\ reversals' = IF Reversed(p)
                    THEN Put(reversals, loc[p].body.returnId,
                             IF loc[p].body.returnId \in DOMAIN reversals
                             THEN reversals[loc[p].body.returnId] + 1 ELSE 1)
                    ELSE reversals
    /\ tx' = [tx EXCEPT ![p] = NoWrites]
    /\ locks' = [locks EXCEPT ![p] = {}]
    /\ resp' = [status |-> 200, handler |-> p, op |-> loc[p].op, message |-> NoError]
    /\ loc' = [loc EXCEPT ![p] = NoLoc]
    /\ pc' = [pc EXCEPT ![p] = "idle"]
    /\ UNCHANGED <<seq, started>>

\* ROLLBACK; throw error; client.release(); res.status(500).json(...)
Transaction_RollbackSwallows(p) ==
    /\ pc[p] = "rollback"
    /\ db' = Rollback(db, tx[p])
    /\ tx' = [tx EXCEPT ![p] = NoWrites]
    /\ locks' = [locks EXCEPT ![p] = {}]
    /\ resp' = [status |-> 200, handler |-> p, op |-> loc[p].op, message |-> NoError]
    /\ loc' = [loc EXCEPT ![p] = NoLoc]
    /\ pc' = [pc EXCEPT ![p] = "idle"]
    /\ UNCHANGED <<seq, started, reversals>>
Transaction_Rollback(p) ==
    /\ pc[p] = "rollback"
    /\ db' = Rollback(db, tx[p])
    /\ tx' = [tx EXCEPT ![p] = NoWrites]
    /\ locks' = [locks EXCEPT ![p] = {}]
    /\ resp' = [status |-> 500, handler |-> p, op |-> loc[p].op,
                message |-> loc[p].error]
    /\ loc' = [loc EXCEPT ![p] = NoLoc]
    /\ pc' = [pc EXCEPT ![p] = "idle"]
    /\ UNCHANGED <<seq, started, reversals>>

\* a statement that waits for a lock is cancelled: SET statement_timeout =
\* 30000, or the deadlock detector of the database picks it as the victim
NoStatementTimeout(p) ==
    /\ FALSE
    /\ UNCHANGED vars
LockWaitAborted(p) ==
    /\ Blocked(p, Needs(p))
    /\ Throw(p, [error |-> "LockWaitAborted"])
    /\ UNCHANGED <<db, seq, tx, locks, resp, started, reversals>>

\* ------------------------------------------------ sale requests
Prices(i) == IF i \in DOMAIN InitInventory THEN InitInventory[i].price ELSE 4
Skus(i) == IF i \in DOMAIN InitInventory THEN InitInventory[i].sku ELSE "SKU-X"

\* item id 3 is not in the inventory
LineRequests ==
    {l \in {[itemId |-> i, sku |-> Skus(i), quantity |-> q, price |-> Prices(i)] :
               i \in 1..3, q \in 1..MaxQuantity} :
        l.itemId \in DOMAIN InitInventory \/ l.quantity = 1}

RECURSIVE SeqsUpTo(_, _)
SeqsUpTo(S, n) ==
    IF n = 0 THEN {<<>>}
    ELSE LET shorter == SeqsUpTo(S, n - 1)
         IN  shorter \cup {Append(s, x) : s \in {t \in shorter : Len(t) = n - 1}, x \in S}

RECURSIVE Subtotal(_)
Subtotal(items) ==
    IF items = <<>> THEN 0
    ELSE ActualPrice(Head(items)) * Head(items).quantity + Subtotal(Tail(items))

\* the total is supplied by the client and not validated: the sum of the
\* line subtotals, or an amount of half a cent (0.005)
SaleBodies ==
    UNION {{[items |-> ls, total |-> t, customer_id |-> 1, status |-> "completed"] :
               t \in {Subtotal(ls), 1}} :
           ls \in SeqsUpTo(LineRequests, MaxLines) \ {<<>>}}

\* the sales of the return scenarios: one unit of item 1, paid in full, by
\* customer 1
LedgerSaleBodies ==
    {[b EXCEPT !.customer_id = c] :
        b \in {x \in SaleBodies : /\ Len(x.items) = 1
                                  /\ x.items[1].itemId = 1
                                  /\ x.items[1].quantity = 1
                                  /\ x.total = Subtotal(x.items)},
        c \in {1}}

\* the same sale, by customer 1 or as a walk-in sale (customer id 0)
SeqSaleBodies ==
    {[b EXCEPT !.customer_id = c] : b \in LedgerSaleBodies, c \in {0, 1}}

\* a return names any invoice number; here it returns one unit of item 1 for
\* its price; the status is whatever the request carries
ReturnBodies ==
    {[invoice_number |-> InvoiceNumber(k), invoice_id |-> k, customer_id |-> 1,
      amount |-> Prices(1), status |-> st,
      items |-> <<[sku |-> Skus(1), quantity |-> 1, price |-> Prices(1)]>>] :
        k \in 1..MaxLedgerSales, st \in {"pending", "approved", "rejected"}}

UpdateBodies ==
    {[returnId |-> r, status |-> st] :
        r \in 1..MaxReturns, st \in {"pending", "approved", "rejected"}}

SaleNext ==
    \E p \in Procs :
        \/ CreateSale_Begin(p, SaleBodies, MaxSales)
        \/ CreateSale_SelectForUpdate(p)
        \/ CreateSale_UpdateInventory(p)
        \/ CreateSale_InsertSale(p)
        \/ CreateSale_UpdateInvoiceNumber(p)
        \/ Transaction_Commit(p)
        \/ Transaction_Rollback(p)
        \/ LockWaitAborted(p)

SpecSale == Init /\ [][SaleNext]_vars

Next ==
    \E p \in Procs :
        \/ CreateSale_Begin(p, LedgerSaleBodies, MaxLedgerSales)
        \/ CreateSale_SelectForUpdate(p)
        \/ CreateSale_UpdateInventory(p)
        \/ CreateSale_InsertSale(p)
        \/ CreateSale_UpdateInvoiceNumber(p)
        \/ CreateReturn_CheckExisting(p, ReturnBodies, MaxReturns)
        \/ CreateReturn_InsertReturn(p)
        \/ CreateReturn_InsertReturnedItem(p)
        \/ UpdateReturnStatus_GetReturn(p, UpdateBodies, MaxUpdates)
        \/ UpdateReturnStatus_ApproveItems(p)
        \/ UpdateReturnStatus_SelectSaleForUpdate(p)
        \/ UpdateReturnStatus_UpdateSale(p)
        \/ UpdateReturnStatus_UpdateCustomer(p)
        \/ UpdateReturnStatus_DeleteItems(p)
        \/ UpdateReturnStatus_UpdateReturn(p)
        \/ Transaction_Commit(p)
        \/ Transaction_Rollback(p)
        \/ LockWaitAborted(p)

Spec == Init /\ [][Next]_vars

\* one handler at a time: the requests arrive one after the other
SeqNext ==
    \E p \in {"h1"} :
        \/ CreateSale_Begin(p, SeqSaleBodies, MaxLedgerSales)
        \/ CreateSale_SelectForUpdate(p)
        \/ CreateSale_UpdateInventory(p)
        \/ CreateSale_InsertSale(p)
        \/ CreateSale_UpdateInvoiceNumber(p)
        \/ CreateReturn_CheckExisting(p, ReturnBodies, MaxReturns)
        \/ CreateReturn_InsertReturn(p)
        \/ CreateReturn_InsertReturnedItem(p)
        \/ UpdateReturnStatus_GetReturn(p, UpdateBodies, MaxSeqUpdates)
        \/ UpdateReturnStatus_ApproveItems(p)
        \/ UpdateReturnStatus_SelectSaleForUpdate(p)
        \/ UpdateReturnStatus_UpdateSale(p)
        \/ UpdateReturnStatus_UpdateCustomer(p)
        \/ UpdateReturnStatus_DeleteItems(p)
        \/ UpdateReturnStatus_UpdateReturn(p)
        \/ Transaction_Commit(p)
        \/ Transaction_Rollback(p)

SpecSeq == Init /\ [][SeqNext]_vars

\* ------------------------------------------------ progress
\* two sales that name the same two items in opposite order
LiveSaleBodies ==
    {b \in SaleBodies : /\ Len(b.items) = 2
                        /\ {b.items[1].itemId, b.items[2].itemId} = DOMAIN InitInventory
                        /\ \A j \in 1..2 : b.items[j].quantity = 1
                        /\ b.total = Subtotal(b.items)}

LiveReturnBodies == {b \in ReturnBodies : b.invoice_id = 1 /\ b.status = "pending"}

LiveUpdateBodies == {b \in UpdateBodies : b.returnId = 1 /\ b.status # "pending"}

\* the next statement of the transaction handler p has open, or its end
Step(p) ==
    \/ CreateSale_SelectForUpdate(p)
    \/ CreateSale_UpdateInventory(p)
    \/ CreateSale_InsertSale(p)
    \/ CreateSale_UpdateInvoiceNumber(p)
    \/ CreateReturn_InsertReturn(p)
    \/ CreateReturn_InsertReturnedItem(p)
    \/ UpdateReturnStatus_ApproveItems(p)
    \/ UpdateReturnStatus_SelectSaleForUpdate(p)
    \/ UpdateReturnStatus_UpdateSale(p)
    \/ UpdateReturnStatus_UpdateCustomer(p)
    \/ UpdateReturnStatus_DeleteItems(p)
    \/ UpdateReturnStatus_UpdateReturn(p)
    \/ Transaction_Commit(p)
    \/ Transaction_Rollback(p)
    \/ LockWaitAborted(p)

LiveNext ==
    \E p \in Procs :
        \/ CreateSale_Begin(p, LiveSaleBodies, MaxLiveSales)
        \/ CreateReturn_CheckExisting(p, LiveReturnBodies, MaxLiveReturns)
        \/ UpdateReturnStatus_GetReturn(p, LiveUpdateBodies, MaxLiveUpdates)
        \/ Step(p)

\* requests need not arrive; a handler that has a statement to run runs it
\* (each await resumes when the database answers), and a statement that
\* waits for a row lock is answered at the latest when the deadlock detector
\* or the statement timeout cancels it
SpecLive == Init /\ [][LiveNext]_vars /\ \A p \in Procs : WF_vars(Step(p))

\* ------------------------------------------------ persistence gateway
\* errors a statement or a connection attempt fails with: the code of the
\* error and the words of its message
ConnRefused == [code |-> "ECONNREFUSED", message |-> <<"connect", "ECONNREFUSED">>]
Terminated == [code |-> "none", message |-> <<"Connection", "terminated", "unexpectedly">>]
ForeignKeyViolation ==
    [code |-> "23503",
     message |-> <<"insert", "or", "update", "violates", "foreign", "key", "constraint">>]
\* WHERE id = $1 with a text that is no integer: the message quotes the text
InvalidInput(text) ==
    [code |-> "22P02",
     message |-> <<"invalid", "input", "syntax", "for", "type", "integer:">> \o text]

\* the connection cannot be made, or is lost while a statement is awaited
ConnectErrors == {ConnRefused, Terminated}

\* req.params.id is the text of the path segment; the integers it can spell
IdTexts == {<<"1">>, <<"2">>}
ParseId(text) == IF text = <<"1">> THEN 1 ELSE 2

\* the error the statement of a call ends with when the server executes it, or
\* NoError: an id that is no integer, a return_id that names no return
StatementError(c) ==
    IF "id" \in DOMAIN c.body /\ c.body.id \notin IdTexts
    THEN InvalidInput(c.body.id)
    ELSE IF c.sql = "INSERT" /\ c.body.return_id \notin DOMAIN db.returns
         THEN ForeignKeyViolation
         ELSE NoError

\* String.prototype.includes, on the words of a message
Includes(message, phrase) ==
    \E i \in 1..(Len(message) - Len(phrase) + 1) :
        SubSeq(message, i, i + Len(phrase) - 1) = phrase

\* const isRetryable = error.code === ... || error.message?.includes(...)
IsRetryable(error) ==
    \/ error.code \in {"ECONNREFUSED", "ETIMEDOUT", "ENOTFOUND", "ENETUNREACH",
                       "57P01", "57P03", "08006", "08003"}
    \/ Includes(error.message, <<"Connection", "terminated">>)
    \/ Includes(error.message, <<"Connection", "reset">>)
    \/ Includes(error.message, <<"server", "closed", "the", "connection">>)

\* async _retryOperation(operation, maxRetries = 3)
maxRetries == 3

RECURSIVE Pow2(_)
Pow2(n) == IF n = 0 THEN 1 ELSE 2 * Pow2(n - 1)

\* const delayMs = Math.min(1000 * Math.pow(2, attempt - 1), 5000)
delayMs(attempt) ==
    IF 1000 * Pow2(attempt - 1) < 5000 THEN 1000 * Pow2(attempt - 1) ELSE 5000

\* where an attempt of the operation starts
OperationStart(op) == IF op = "run" THEN "run_connect" ELSE "pool_query"

\* db.run(sql, params) or db.get(sql, params) is called: attempt 1 begins
Gateway_Call(p, calls, max) ==
    /\ pc[p] = "idle"
    /\ seq.returned_items < max
    /\ \E c \in calls :
         /\ loc' = [loc EXCEPT ![p] =
                      [op |-> c.op, sql |-> c.sql, body |-> c.body, attempt |-> 1,
                       waits |-> <<>>, checkedOut |-> 0, applied |-> 0,
                       lastInsertRowid |-> 0, error |-> NoError]]
         /\ pc' = [pc EXCEPT ![p] = OperationStart(c.op)]
    /\ UNCHANGED <<db, seq, tx, locks, resp, started, reversals>>
\* const client = await this.pool.connect()
Run_Connect(p) ==
    /\ pc[p] = "run_connect"
    /\ \/ /\ loc' = [loc EXCEPT ![p].checkedOut = @ + 1]
          /\ pc' = [pc EXCEPT ![p] = "run_query"]
       \/ \E error \in ConnectErrors :
            /\ loc' = [loc EXCEPT ![p].error = error]
            /\ pc' = [pc EXCEPT ![p] = "retry_catch"]
    /\ UNCHANGED <<db, seq, tx, locks, resp, started, reversals>>

\* const result = await client.query(pgSql, params): the statement of POST
\* or DELETE /api/returned-items takes effect at once (no transaction)
Run_Query(p) ==
    /\ pc[p] = "run_query"
    /\ \/ /\ StatementError(loc[p]) = NoError
          /\ IF loc[p].sql = "INSERT"
             THEN LET id == seq.returned_items + 1
                  IN  /\ seq' = [seq EXCEPT !.returned_items = id]
                      /\ db' = [db EXCEPT !.returned_items = Put(@, id,
                                  [id |-> id, return_id |-> loc[p].body.return_id,
                                   sku |-> loc[p].body.sku,
                                   quantity |-> loc[p].body.quantity,
                                   condition |-> "returned"])]
             ELSE /\ db' = [db EXCEPT !.returned_items =
                              [k \in DOMAIN @ \ {ParseId(loc[p].body.id)} |-> @[k]]]
                  /\ UNCHANGED seq
          /\ loc' = [loc EXCEPT ![p].applied = @ + 1]
          /\ pc' = [pc EXCEPT ![p] =
                      IF loc[p].sql = "INSERT" THEN "run_lastval" ELSE "run_release"]
       \/ \E error \in {StatementError(loc[p]), Terminated} \ {NoError} :
            /\ loc' = [loc EXCEPT ![p].error = error]
            /\ pc' = [pc EXCEPT ![p] = "run_release"]
            /\ UNCHANGED <<db, seq>>
    /\ UNCHANGED <<tx, locks, resp, started, reversals>>

\* const idResult = await client.query('SELECT lastval() as id')
Run_Lastval(p) ==
    /\ pc[p] = "run_lastval"
    /\ \/ loc' = [loc EXCEPT ![p].lastInsertRowid = seq.returned_items]
       \/ loc' = [loc EXCEPT ![p].error = Terminated]
    /\ pc' = [pc EXCEPT ![p] = "run_release"]
    /\ UNCHANGED <<db, seq, tx, locks, resp, started, reversals>>

\* finally { client.release() }
Run_Release(p) ==
    /\ pc[p] = "run_release"
    /\ loc' = [loc EXCEPT ![p].checkedOut = @ - 1]
    /\ pc' = [pc EXCEPT ![p] =
                IF loc[p].error = NoError THEN "op_return" ELSE "retry_catch"]
    /\ UNCHANGED <<db, seq, tx, locks, resp, started, reversals>>

\* get, all, exec: await this.pool.query(pgSql, params)
Pool_Query(p) ==
    /\ pc[p] = "pool_query"
    /\ \/ /\ StatementError(loc[p]) = NoError
          /\ pc' = [pc EXCEPT ![p] = "op_return"]
          /\ UNCHANGED loc
       \/ \E error \in (ConnectErrors \cup {StatementError(loc[p])}) \ {NoError} :
            /\ loc' = [loc EXCEPT ![p].error = error]
            /\ pc' = [pc EXCEPT ![p] = "retry_catch"]
    /\ UNCHANGED <<db, seq, tx, locks, resp, started, reversals>>

\* catch (error): throw when the error is not retryable or this was the last
\* attempt; otherwise wait delayMs and go round the loop
Retry_Catch(p) ==
    /\ pc[p] = "retry_catch"
    /\ IF ~IsRetryable(loc[p].error) \/ loc[p].attempt = maxRetries
       THEN /\ pc' = [pc EXCEPT ![p] = "op_throw"]
            /\ UNCHANGED loc
       ELSE /\ loc' = [loc EXCEPT ![p].waits = Append(@, delayMs(loc[p].attempt)),
                                  ![p].attempt = @ + 1,
                                  ![p].error = NoError]
            /\ pc' = [pc EXCEPT ![p] = OperationStart(loc[p].op)]
    /\ UNCHANGED <<db, seq, tx, locks, resp, started, reversals>>

\* the operation returns its result to the route, which answers
Operation_Return(p) ==
    /\ pc[p] = "op_return"
    /\ resp' = [status |-> 200, handler |-> p, op |-> loc[p].op, message |-> NoError]
    /\ loc' = [loc EXCEPT ![p] = NoLoc]
    /\ pc' = [pc EXCEPT ![p] = "idle"]
    /\ UNCHANGED <<db, seq, tx, locks, started, reversals>>

\* the error is propagated to the route, which answers 500
Operation_Throw(p) ==
    /\ pc[p] = "op_throw"
    /\ resp' = [status |-> 500, handler |-> p, op |-> loc[p].op,
                message |-> loc[p].error]
    /\ loc' = [loc EXCEPT ![p] = NoLoc]
    /\ pc' = [pc EXCEPT ![p] = "idle"]
    /\ UNCHANGED <<db, seq, tx, locks, started, reversals>>

\* transaction(fn)(...args) is called. What the statements of fn do to the
\* tables is in the actions of the routes above; here fn returns or throws
Tx_Call(p) ==
    /\ pc[p] = "idle"
    /\ loc' = [loc EXCEPT ![p] =
                 [op |-> "transaction", attempt |-> 1, waits |-> <<>>,
                  checkedOut |-> 0, thrownBy |-> "none", rollback |-> "none",
                  error |-> NoError]]
    /\ pc' = [pc EXCEPT ![p] = "tx_connect"]
    /\ UNCHANGED <<db, seq, tx, locks, resp, started, reversals>>

\* const client = await this.pool.connect(), before the try block
Tx_Connect(p) ==
    /\ pc[p] = "tx_connect"
    /\ \/ /\ loc' = [loc EXCEPT ![p].checkedOut = @ + 1]
          /\ pc' = [pc EXCEPT ![p] = "tx_begin"]
       \/ \E error \in ConnectErrors :
            /\ loc' = [loc EXCEPT ![p].error = error, ![p].thrownBy = "connect"]
            /\ pc' = [pc EXCEPT ![p] = "op_throw"]
    /\ UNCHANGED <<db, seq, tx, locks, resp, started, reversals>>

\* a statement of the try block: it succeeds, or throws to the catch block
Tx_Statement(p, at, statement, errors, then) ==
    /\ pc[p] = at
    /\ \/ /\ pc' = [pc EXCEPT ![p] = then]
          /\ UNCHANGED loc
       \/ \E error \in errors :
            /\ loc' = [loc EXCEPT ![p].error = error, ![p].thrownBy = statement]
            /\ pc' = [pc EXCEPT ![p] = "tx_rollback"]
    /\ UNCHANGED <<db, seq, tx, locks, resp, started, reversals>>

\* await client.query('BEGIN')
Tx_Begin(p) == Tx_Statement(p, "tx_begin", "BEGIN", {Terminated}, "tx_set")

\* await client.query('SET statement_timeout = 30000')
Tx_SetStatementTimeout(p) ==
    Tx_Statement(p, "tx_set", "SET", {Terminated}, "tx_fn")

\* const result = await fn(txContext, ...args)
Tx_Fn(p) ==
    Tx_Statement(p, "tx_fn", "fn", {Terminated, ForeignKeyViolation}, "tx_commit")

\* await client.query('COMMIT'); return result
Tx_Commit(p) == Tx_Statement(p, "tx_commit", "COMMIT", {Terminated}, "tx_release")

\* catch (error) { await client.query('ROLLBACK'); throw error }: the error
\* of a ROLLBACK that fails is thrown in place of the first
Tx_Rollback(p) ==
    /\ pc[p] = "tx_rollback"
    /\ \/ loc' = [loc EXCEPT ![p].rollback = "done"]
       \/ loc' = [loc EXCEPT ![p].rollback = "failed", ![p].error = Terminated]
    /\ pc' = [pc EXCEPT ![p] = "tx_release"]
    /\ UNCHANGED <<db, seq, tx, locks, resp, started, reversals>>

\* finally { client.release() }
Tx_ReleaseInTry(p) ==
    /\ pc[p] = "tx_release"
    /\ loc' = [loc EXCEPT ![p].checkedOut =
                 IF loc[p].error = NoError THEN @ - 1 ELSE @]
    /\ pc' = [pc EXCEPT ![p] =
                IF loc[p].error = NoError THEN "op_return" ELSE "op_throw"]
    /\ UNCHANGED <<db, seq, tx, locks, resp, started, reversals>>
Tx_Release(p) ==
    /\ pc[p] = "tx_release"
    /\ loc' = [loc EXCEPT ![p].checkedOut = @ - 1]
    /\ pc' = [pc EXCEPT ![p] =
                IF loc[p].error = NoError THEN "op_return" ELSE "op_throw"]
    /\ UNCHANGED <<db, seq, tx, locks, resp, started, reversals>>

\* POST /api/returned-items, DELETE /api/returned-items/:id, GET /api/inventory/:id
\* with an id that is an integer or the text "Connection reset"
GatewayCalls ==
    {[op |-> "run", sql |-> "INSERT",
      body |-> [return_id |-> r, sku |-> Skus(1), quantity |-> 1]] : r \in 1..2}
    \cup {[op |-> "run", sql |-> "DELETE", body |-> [id |-> <<"1">>]]}
    \cup {[op |-> "get", sql |-> "SELECT", body |-> [id |-> t]] :
              t \in {<<"1">>, <<"Connection", "reset">>}}

\* the return the returned items of a call refer to
GatewayReturnBodies == {b \in ReturnBodies : b.status = "pending"}

\* the calls of one request handler: gateway operations share no state but
\* the tables
GatewayNext ==
    \E p \in {"h1"} :
        \/ CreateReturn_CheckExisting(p, GatewayReturnBodies, MaxGatewayReturns)
        \/ CreateReturn_InsertReturn(p)
        \/ CreateReturn_InsertReturnedItem(p)
        \/ Transaction_Commit(p)
        \/ Gateway_Call(p, GatewayCalls, MaxGatewayRows)
        \/ Run_Connect(p)
        \/ Run_Query(p)
        \/ Run_Lastval(p)
        \/ Run_Release(p)
        \/ Pool_Query(p)
        \/ Retry_Catch(p)
        \/ Tx_Call(p)
        \/ Tx_Connect(p)
        \/ Tx_Begin(p)
        \/ Tx_SetStatementTimeout(p)
        \/ Tx_Fn(p)
        \/ Tx_Commit(p)
        \/ Tx_Rollback(p)
        \/ Tx_Release(p)
        \/ Operation_Return(p)
        \/ Operation_Throw(p)

SpecGateway == Init /\ [][GatewayNext]_vars

\* ------------------------------------------------ saveSale (client)
\* Number.parseFloat(customer.lifetimevalue || customer.lifetimeValue || 0),
\* on the row that GET /api/customers/:id answers with
CurrentValue(customer) ==
    IF "lifetimevalue" \in DOMAIN customer THEN customer.lifetimevalue
    ELSE IF "lifetimeValue" \in DOMAIN customer THEN customer.lifetimeValue
         ELSE 0

\* after POST /api/sales has answered, for a registered customer:
\* const customer = await apiRequest(`/customers/${customerId}`), served by
\* db.get('SELECT * FROM customers WHERE id = ?') on the pool. total is the
\* total of the sale request, here the sum of its lines
SaveSale_GetCustomer(p) ==
    /\ pc[p] = "idle"
    /\ \E k \in DOMAIN db.sales \ started.credited :
         LET customerId == db.sales[k].customer_id
         IN  /\ customerId > 0
             /\ customerId \in DOMAIN db.customers
             /\ loc' = [loc EXCEPT ![p] =
                          [op |-> "saveSale", sale |-> k, customerId |-> customerId,
                           total |-> Subtotal(db.sales[k].items),
                           customer |-> db.customers[customerId]]]
             /\ started' = [started EXCEPT !.credited = @ \cup {k}]
    /\ pc' = [pc EXCEPT ![p] = "saveSale_put"]
    /\ UNCHANGED <<db, seq, tx, locks, resp, reversals>>

\* apiRequest(`/customers/${customerId}`, 'PUT', updatedCustomer) with
\* lifetime_value: currentValue + total, served by db.run('UPDATE customers SET
\* ..., lifetime_value = ?, ... WHERE id = ?'): one statement, committed at
\* once, that waits while a transaction holds the lock of the row
SaveSale_PutCustomer(p) ==
    /\ pc[p] = "saveSale_put"
    /\ ~Blocked(p, {<<"customers", loc[p].customerId>>})
    /\ LET lifetime_value == CurrentValue(loc[p].customer) + loc[p].total
       IN  db' = [db EXCEPT !.customers[loc[p].customerId].lifetime_value =
                     ToDecimal2(lifetime_value)]
    /\ resp' = [status |-> 200, handler |-> p, op |-> "saveSale", message |-> NoError]
    /\ loc' = [loc EXCEPT ![p] = NoLoc]
    /\ pc' = [pc EXCEPT ![p] = "idle"]
    /\ UNCHANGED <<seq, tx, locks, started, reversals>>

LifetimeReturnBodies == {b \in ReturnBodies : b.status = "pending"}
LifetimeUpdateBodies == {b \in UpdateBodies : b.status = "approved" /\ b.returnId = 1}

\* no sale has been made; credited holds the sales whose customer update the
\* client has begun
InitLifetime ==
    /\ db = [t \in Tables |->
               CASE t = "inventory" -> InitInventory
                 [] t = "customers" -> InitCustomers
                 [] OTHER -> EmptyTable]
    /\ seq = [sales |-> 0, returns |-> 0, returned_items |-> 0]
    /\ tx = [p \in Procs |-> NoWrites]
    /\ locks = [p \in Procs |-> {}]
    /\ pc = [p \in Procs |-> "idle"]
    /\ loc = [p \in Procs |-> NoLoc]
    /\ resp = [status |-> 0, handler |-> "none", op |-> "none", message |-> NoError]
    /\ started = [sale |-> 0, return |-> 0, update |-> 0, credited |-> {}]
    /\ reversals = EmptyTable

LifetimeNext ==
    \E p \in Procs :
        \/ CreateSale_Begin(p, LedgerSaleBodies, MaxLifetimeSales)
        \/ CreateSale_SelectForUpdate(p)
        \/ CreateSale_UpdateInventory(p)
        \/ CreateSale_InsertSale(p)
        \/ CreateSale_UpdateInvoiceNumber(p)
        \/ SaveSale_GetCustomer(p)
        \/ SaveSale_PutCustomer(p)
        \/ CreateReturn_CheckExisting(p, LifetimeReturnBodies, MaxLifetimeReturns)
        \/ CreateReturn_InsertReturn(p)
        \/ CreateReturn_InsertReturnedItem(p)
        \/ UpdateReturnStatus_GetReturn(p, LifetimeUpdateBodies, MaxLifetimeUpdates)
        \/ UpdateReturnStatus_ApproveItems(p)
        \/ UpdateReturnStatus_SelectSaleForUpdate(p)
        \/ UpdateReturnStatus_UpdateSale(p)
        \/ UpdateReturnStatus_UpdateCustomer(p)
        \/ UpdateReturnStatus_UpdateReturn(p)
        \/ Transaction_Commit(p)
        \/ Transaction_Rollback(p)
        \/ LockWaitAborted(p)

SpecLifetime == InitLifetime /\ [][LifetimeNext]_vars

\* ------------------------------------------------ approveReturn (client)
\* const returnData = await apiRequest(`/returns/${id}`), for a return the
\* list shows as pending
ApproveReturn_GetReturn(p, max) ==
    /\ pc[p] = "idle"
    /\ seq.returned_items < max
    /\ \E id \in DOMAIN db.returns :
         /\ db.returns[id].status = "pending"
         /\ loc' = [loc EXCEPT ![p] =
                      [op |-> "approveReturn", id |-> id,
                       items |-> db.returns[id].items, i |-> 1]]
    /\ pc' = [pc EXCEPT ![p] = "approve_post"]
    /\ UNCHANGED <<db, seq, tx, locks, resp, started, reversals>>

\* for (const item of items) apiRequest('/returned-items', 'POST',
\* returnedItem) with condition 'returned', served by db.run('INSERT INTO
\* returned_items ...'); the PUT that follows the loop is the
\* updateReturnStatus request
ApproveReturn_PostReturnedItem(p) ==
    /\ pc[p] = "approve_post"
    /\ LET item == loc[p].items[loc[p].i]
           id == seq.returned_items + 1
       IN  /\ seq' = [seq EXCEPT !.returned_items = id]
           /\ db' = [db EXCEPT !.returned_items = Put(@, id,
                       [id |-> id, return_id |-> loc[p].id, sku |-> item.sku,
                        quantity |-> item.quantity, condition |-> "returned"])]
    /\ IF loc[p].i + 1 > Len(loc[p].items)
       THEN /\ loc' = [loc EXCEPT ![p] = NoLoc]
            /\ pc' = [pc EXCEPT ![p] = "idle"]
       ELSE /\ loc' = [loc EXCEPT ![p].i = @ + 1]
            /\ UNCHANGED pc
    /\ resp' = [status |-> 200, handler |-> p, op |-> "returned-items",
                message |-> NoError]
    /\ UNCHANGED <<tx, locks, started, reversals>>

\* the client's requests: a return is created pending and approved
ApproveNext ==
    \E p \in {"h1"} :
        \/ CreateSale_Begin(p, LedgerSaleBodies, MaxLedgerSales)
        \/ CreateSale_SelectForUpdate(p)
        \/ CreateSale_UpdateInventory(p)
        \/ CreateSale_InsertSale(p)
        \/ CreateSale_UpdateInvoiceNumber(p)
        \/ CreateReturn_CheckExisting(p, LifetimeReturnBodies, MaxReturns)
        \/ CreateReturn_InsertReturn(p)
        \/ CreateReturn_InsertReturnedItem(p)
        \/ ApproveReturn_GetReturn(p, MaxApproveRows)
        \/ ApproveReturn_PostReturnedItem(p)
        \/ UpdateReturnStatus_GetReturn(p, LifetimeUpdateBodies, MaxApproveUpdates)
        \/ UpdateReturnStatus_ApproveItems(p)
        \/ UpdateReturnStatus_SelectSaleForUpdate(p)
        \/ UpdateReturnStatus_UpdateSale(p)
        \/ UpdateReturnStatus_UpdateCustomer(p)
        \/ UpdateReturnStatus_UpdateReturn(p)
        \/ Transaction_Commit(p)
        \/ Transaction_Rollback(p)

SpecApprove == Init /\ [][ApproveNext]_vars

\* ------------------------------------------------ return amounts
\* body('amount').isFloat({ min: 0 }) and body('items').isArray({ min: 1 })
\* are all the route asks of the amount and the items of a return: a pending
\* return of one or two units of item 1, for the price of as many
AmountReturnBodies ==
    {[invoice_number |-> InvoiceNumber(k), invoice_id |-> k, customer_id |-> 1,
      amount |-> q * Prices(1), status |-> "pending",
      items |-> <<[sku |-> Skus(1), quantity |-> q, price |-> Prices(1)]>>] :
        k \in 1..MaxLedgerSales, q \in 1..2}

\* a sale of one unit, a return of it, one approval
AmountsNext ==
    \E p \in {"h1"} :
        \/ CreateSale_Begin(p, LedgerSaleBodies, MaxLedgerSales)
        \/ CreateSale_SelectForUpdate(p)
        \/ CreateSale_UpdateInventory(p)
        \/ CreateSale_InsertSale(p)
        \/ CreateSale_UpdateInvoiceNumber(p)
        \/ CreateReturn_CheckExisting(p, AmountReturnBodies, MaxReturns)
        \/ CreateReturn_InsertReturn(p)
        \/ CreateReturn_InsertReturnedItem(p)
        \/ UpdateReturnStatus_GetReturn(p, LifetimeUpdateBodies, MaxAmountUpdates)
        \/ UpdateReturnStatus_ApproveItems(p)
        \/ UpdateReturnStatus_SelectSaleForUpdate(p)
        \/ UpdateReturnStatus_UpdateSale(p)
        \/ UpdateReturnStatus_UpdateCustomer(p)
        \/ UpdateReturnStatus_UpdateReturn(p)
        \/ Transaction_Commit(p)
        \/ Transaction_Rollback(p)

SpecAmounts == Init /\ [][AmountsNext]_vars

\* ------------------------------------------------ requireAuth
\* if (!req.session || !req.session.user) return res.status(401)...; next()
RequireAuth(req) == req.session

\* a route declared with requireAuth answers 401 and its handler is not
\* entered
RequireAuth_Reject(p, requests) ==
    /\ pc[p] = "idle"
    /\ \E req \in requests :
         /\ ~RequireAuth(req)
         /\ resp' = [status |-> 401, handler |-> p, op |-> "requireAuth",
                     message |-> [error |-> "Authentication required"]]
    /\ UNCHANGED <<db, seq, tx, locks, pc, loc, started, reversals>>

\* requests with or without a logged-in session: sales of item 1 paid in
\* full, and pending returns
AuthSaleBodies ==
    {[session |-> a] @@ b :
        b \in {x \in SaleBodies : /\ Len(x.items) = 1
                                  /\ x.items[1].itemId = 1
                                  /\ x.total = Subtotal(x.items)},
        a \in BOOLEAN}

AuthReturnBodies ==
    {[session |-> a] @@ b : b \in {x \in ReturnBodies : x.status = "pending"},
                           a \in BOOLEAN}

\* app.post('/api/sales', async (req, res) => ...) has no middleware;
\* app.post('/api/returns', requireAuth, ...) has
AuthNext ==
    \E p \in {"h1"} :
        \/ CreateSale_Begin(p, AuthSaleBodies, MaxAuthSales)
        \/ CreateSale_SelectForUpdate(p)
        \/ CreateSale_UpdateInventory(p)
        \/ CreateSale_InsertSale(p)
        \/ CreateSale_UpdateInvoiceNumber(p)
        \/ RequireAuth_Reject(p, AuthReturnBodies)
        \/ CreateReturn_CheckExisting(p, {req \in AuthReturnBodies : RequireAuth(req)},
                                      MaxAuthReturns)
        \/ CreateReturn_InsertReturn(p)
        \/ CreateReturn_InsertReturnedItem(p)
        \/ Transaction_Commit(p)
        \/ Transaction_Rollback(p)

SpecAuth == Init /\ [][AuthNext]_vars

\* ------------------------------------------------ GET /api/dashboard/profits
\* WHERE status = 'completed' [AND date BETWEEN ? AND ?] [AND seller_id = ?]:
\* the date condition is added when both startDate and endDate are given, the
\* seller condition when sellerId is given (0 stands for a parameter that is
\* absent or empty; dates are ISO texts, ordered as the days they name)
WhereClauseAnyStatus(sale, query) ==
    /\ (query.startDate # 0 /\ query.endDate # 0)
          => (query.startDate <= sale.date /\ sale.date <= query.endDate)
    /\ query.sellerId # 0 => sale.seller_id = query.sellerId
WhereClause(sale, query) ==
    /\ sale.status = "completed"
    /\ (query.startDate # 0 /\ query.endDate # 0)
          => (query.startDate <= sale.date /\ sale.date <= query.endDate)
    /\ query.sellerId # 0 => sale.seller_id = query.sellerId

\* COALESCE(SUM(column), 0) over the rows with the ids given
RECURSIVE SumOf(_, _, _)
SumOf(sales, ids, column) ==
    IF ids = {} THEN 0
    ELSE LET k == CHOOSE x \in ids : TRUE
         IN  sales[k][column] + SumOf(sales, ids \ {k}, column)

\* a quotient the code computes in floating point, kept as a fraction
Fraction(num, den) == [num |-> num, den |-> den]
Zero == Fraction(0, 1)

\* const summary = await db.get(summaryQuery, params)
Profits_Summary(p, queries) ==
    /\ pc[p] = "idle"
    /\ \E query \in queries :
         LET ids == {k \in DOMAIN db.sales : WhereClause(db.sales[k], query)}
         IN  loc' = [loc EXCEPT ![p] =
                       [op |-> "profits", query |-> query,
                        summary |->
                          [totalSales |-> Cardinality(ids),
                           totalRevenue |-> SumOf(db.sales, ids, "total"),
                           totalCost |-> SumOf(db.sales, ids, "total_cost"),
                           totalProfit |-> SumOf(db.sales, ids, "profit"),
                           totalDiscount |-> SumOf(db.sales, ids, "total_discount")]]]
    /\ pc' = [pc EXCEPT ![p] = "profits_respond"]
    /\ UNCHANGED <<db, seq, tx, locks, resp, started, reversals>>

\* profitMargin, averageOrderValue and res.json({ summary: ... }); the ranking
\* of the top selling items reads the same rows and is left out
Profits_Respond(p) ==
    /\ pc[p] = "profits_respond"
    /\ LET summary == loc[p].summary
           profitMargin == IF summary.totalRevenue > 0
                           THEN Fraction(summary.totalProfit * 100, summary.totalRevenue)
                           ELSE Zero
           averageOrderValue == IF summary.totalSales > 0
                                THEN Fraction(summary.totalRevenue, summary.totalSales)
                                ELSE Zero
       IN  resp' = [status |-> 200, handler |-> p, op |-> "profits",
                    query |-> loc[p].query,
                    message |-> [profitMargin |-> profitMargin,
                                 averageOrderValue |-> averageOrderValue] @@ summary]
    /\ loc' = [loc EXCEPT ![p] = NoLoc]
    /\ pc' = [pc EXCEPT ![p] = "idle"]
    /\ UNCHANGED <<db, seq, tx, locks, started, reversals>>

\* the sale rows of the summary: completed or returned, of two sellers, free
\* of charge or sold for 4.00 at a cost of 2.00 with a discount of 1.00
ProfitSaleRows ==
    {[status |-> st, date |-> d, seller_id |-> u, total |-> a.total,
      total_cost |-> a.total_cost, total_discount |-> a.total_discount,
      profit |-> a.total - a.total_cost] :
        st \in {"completed", "returned"}, d \in 1..MaxDay, u \in 1..2,
        a \in {[total |-> 0, total_cost |-> 0, total_discount |-> 0],
               [total |-> 8, total_cost |-> 4, total_discount |-> 2]}}

ProfitQueries ==
    {[startDate |-> a, endDate |-> b, sellerId |-> u] :
        a \in 0..MaxDay, b \in 0..MaxDay, u \in 0..2}

\* the sales table holds any rows of these when the summary is asked for
InitProfits ==
    /\ \E n \in 0..MaxProfitSales : \E sales \in [1..n -> ProfitSaleRows] :
         db = [t \in Tables |->
                 CASE t = "inventory" -> InitInventory
                   [] t = "customers" -> InitCustomers
                   [] t = "sales" -> sales
                   [] OTHER -> EmptyTable]
    /\ seq = [sales |-> MaxProfitSales, returns |-> 0, returned_items |-> 0]
    /\ tx = [p \in Procs |-> NoWrites]
    /\ locks = [p \in Procs |-> {}]
    /\ pc = [p \in Procs |-> "idle"]
    /\ loc = [p \in Procs |-> NoLoc]
    /\ resp = [status |-> 0, handler |-> "none", op |-> "none", message |-> NoError]
    /\ started = [sale |-> 0, return |-> 0, update |-> 0]
    /\ reversals = EmptyTable

ProfitsNext ==
    \E p \in {"h1"} :
        \/ Profits_Summary(p, ProfitQueries)
        \/ Profits_Respond(p)

SpecProfits == InitProfits /\ [][ProfitsNext]_vars

\* ===================================================== properties
\* the step in which handler p's transaction commits
Commits(p) == pc[p] = "commit" /\ pc'[p] = "idle"

RECURSIVE QuantityOf(_, _)
QuantityOf(items, i) ==
    IF items = <<>> THEN 0
    ELSE (IF Head(items).itemId = i THEN Head(items).quantity ELSE 0)
         + QuantityOf(Tail(items), i)

RECURSIVE SoldIn(_, _)
SoldIn(ids, i) ==
    IF ids = {} THEN 0
    ELSE LET k == CHOOSE x \in ids : TRUE
         IN  QuantityOf(db.sales[k].items, i) + SoldIn(ids \ {k}, i)

\* what the committed sales have deducted from item i
Deducted(i) == SoldIn(DOMAIN db.sales, i)

\* C1: under any interleaving of createSale transactions on the same item,
\* the committed quantity of the item is never negative and the quantities
\* deducted by the committed sales never add up to more than the initial stock
C1_StockNeverNegative ==
    \A i \in DOMAIN db.inventory :
        /\ db.inventory[i].quantity >= 0
        /\ Deducted(i) <= InitQuantity

\* a sale waits for the lock of a row whose stock, once the open transaction
\* of the other handler has deducted from it, no longer covers its request
C1_Witness ==
    \E p \in Procs, q \in Procs :
        /\ p # q
        /\ pc[p] = "sale_select"
        /\ Blocked(p, Needs(p))
        /\ CurrentLine(p).itemId \in DOMAIN tx[q].inventory
        /\ tx[q].inventory[CurrentLine(p).itemId].quantity < CurrentLine(p).quantity

\* C2: no step of a createSale that fails, neither the statements of its
\* earlier lines nor its ROLLBACK, changes a committed inventory quantity or
\* the committed sale rows: those change only when a transaction commits
C2_FailedSaleLeavesNoTrace ==
    [][(\A p \in Procs : ~Commits(p))
         => /\ db'.inventory = db.inventory
            /\ db'.sales = db.sales]_vars

\* a sale was answered with "insufficient stock" on a line that saw less stock
\* than is committed now: its own earlier line had deducted, and was undone
C2_Witness ==
    /\ resp.status = 500
    /\ resp.op = "sale"
    /\ resp.message.error = "InsufficientStock"
    /\ pc[resp.handler] = "idle"
    /\ resp.message.available < db.inventory[resp.message.itemId].quantity
    /\ db.sales = EmptyTable

\* C3: when an approval commits for a return that another approval has
\* made approved in the meantime, with the reversal of that return already
\* committed, it leaves the sale rows and the customers as they are: two
\* concurrent approvals do not both apply the reversal
C3_ConcurrentApprovalsReverseOnce ==
    [][\A p \in Procs :
          (/\ Commits(p)
           /\ loc[p].op = "update"
           /\ loc[p].body.status = "approved"
           /\ loc[p].returnRecord.status = "pending"
           /\ db.returns[loc[p].body.returnId].status = "approved"
           /\ loc[p].body.returnId \in DOMAIN reversals)
          => /\ db'.sales = db.sales
             /\ db'.customers = db.customers]_vars

\* C4: over any sequence of updateReturnStatus calls, the financial reversal
\* of a return is committed at most once
C4_ReversalAtMostOnce ==
    \A r \in DOMAIN reversals : reversals[r] <= 1

\* C5: a return that is approved or rejected keeps its status
C5_TerminalStatus ==
    [][\A r \in DOMAIN db.returns :
          db.returns[r].status \in {"approved", "rejected"}
          => db'.returns[r].status = db.returns[r].status]_vars

\* C6: an approval of a return that the call found approved already (the
\* second of two approvals in succession) commits without changing any sale
\* row or any customer
C6_SecondApprovalChangesNothing ==
    [][\A p \in Procs :
          (/\ Commits(p)
           /\ loc[p].op = "update"
           /\ loc[p].body.status = "approved"
           /\ loc[p].returnRecord.status = "approved")
          => /\ db'.sales = db.sales
             /\ db'.customers = db.customers]_vars

\* the second approval of a return whose reversal was committed once is about
\* to commit, and the sale still carries the totals of the single reversal
C6_Witness ==
    \E p \in Procs :
        /\ pc[p] = "commit"
        /\ loc[p].op = "update"
        /\ loc[p].body.status = "approved"
        /\ loc[p].returnRecord.status = "approved"
        /\ loc[p].body.returnId \in DOMAIN reversals
        /\ reversals[loc[p].body.returnId] = 1
        /\ \E k \in DOMAIN View(p, "sales") :
             /\ View(p, "sales")[k].invoice_number = loc[p].returnRecord.invoice_number
             /\ View(p, "sales")[k].status = "returned"
             /\ View(p, "sales")[k] = db.sales[k]

\* C7: at most one committed Return row per invoice number
C7_OneReturnPerInvoice ==
    \A r1 \in DOMAIN db.returns, r2 \in DOMAIN db.returns :
        db.returns[r1].invoice_number = db.returns[r2].invoice_number => r1 = r2

\* C8: a createReturn call goes on to its inserts only when no committed
\* Return row carries its invoice number, whatever the status of that row;
\* otherwise it answers 400 (duplicate return) and writes nothing
C8_DuplicateReturnRefused ==
    [][started'.return # started.return
         => IF \E p \in Procs : pc[p] = "idle" /\ pc'[p] = "ret_insert"
            THEN \A p \in Procs :
                   (pc[p] = "idle" /\ pc'[p] = "ret_insert")
                   => ~(\E k \in DOMAIN db.returns :
                          db.returns[k].invoice_number = loc'[p].body.invoice_number)
            ELSE /\ resp'.status = 400
                 /\ resp'.message.error = "DuplicateReturn"
                 /\ db' = db /\ tx' = tx /\ seq' = seq]_vars

\* the last response is a refused duplicate, sent after the only return had
\* been rejected by an update (its returned items are gone)
C8_Witness ==
    /\ resp.status = 400
    /\ resp.message.error = "DuplicateReturn"
    /\ \A p \in Procs : pc[p] = "idle"
    /\ started.update > 0
    /\ seq.returned_items > 0
    /\ db.returned_items = EmptyTable
    /\ \E k \in DOMAIN db.returns :
         DOMAIN db.returns = {k} /\ db.returns[k].status = "rejected"

\* C9: the commit of a rejection of a return that the call found pending
\* leaves the sale rows and the customers unchanged, and afterwards no
\* ReturnedItem row of that return is left
C9_RejectionLeavesFinancials ==
    [][\A p \in Procs :
          (/\ Commits(p)
           /\ loc[p].op = "update"
           /\ loc[p].body.status = "rejected"
           /\ loc[p].returnRecord.status = "pending")
          => /\ db'.sales = db.sales
             /\ db'.customers = db.customers
             /\ \A k \in DOMAIN db'.returned_items :
                  db'.returned_items[k].return_id # loc[p].body.returnId]_vars

\* a rejection has committed: the return is rejected, its returned items are
\* deleted, and its sale is still completed with its full total
C9_Witness ==
    /\ resp.status = 200
    /\ resp.op = "update"
    /\ \A p \in Procs : pc[p] = "idle"
    /\ seq.returned_items > 0
    /\ db.returned_items = EmptyTable
    /\ reversals = EmptyTable
    /\ \E r \in DOMAIN db.returns, k \in DOMAIN db.sales :
         /\ db.returns[r].status = "rejected"
         /\ db.sales[k].invoice_number = db.returns[r].invoice_number
         /\ db.sales[k].status = "completed"
         /\ db.sales[k].total = Subtotal(db.sales[k].items)
         /\ db.customers[db.sales[k].customer_id].lifetime_value = 0

\* C10: every committed sale row has profit = total - total_cost
C10_ProfitIdentity ==
    \A k \in DOMAIN db.sales :
        db.sales[k].profit = db.sales[k].total - db.sales[k].total_cost

FiveDigits(k) ==
    IF k < 10 THEN "0000" \o ToString(k)
    ELSE IF k < 100 THEN "000" \o ToString(k)
    ELSE IF k < 1000 THEN "00" \o ToString(k)
    ELSE IF k < 10000 THEN "0" \o ToString(k)
    ELSE ToString(k)

RECURSIVE CostOfLines(_, _)
CostOfLines(items, inventory) ==
    IF items = <<>> THEN 0
    ELSE inventory[Head(items).itemId].cost_price * Head(items).quantity
         + CostOfLines(Tail(items), inventory)

\* sum over the lines of ((catalog price - actual price) x quantity), the
\* actual price being the line's price when none is supplied
RECURSIVE DiscountOfLines(_, _)
DiscountOfLines(items, inventory) ==
    IF items = <<>> THEN 0
    ELSE (inventory[Head(items).itemId].price
            - (IF "actualPrice" \in DOMAIN Head(items)
               THEN Head(items).actualPrice ELSE Head(items).price))
           * Head(items).quantity
         + DiscountOfLines(Tail(items), inventory)

\* C13: the sale row that a successful createSale commits has total_cost =
\* sum of (cost price x quantity), total_discount = sum of ((catalog price -
\* actual price) x quantity) and profit = supplied total - total_cost, and
\* the commit takes from every item exactly the quantity of its lines
C13_SaleTotals ==
    [][\A p \in Procs :
          (Commits(p) /\ loc[p].op = "sale")
          => LET body == loc[p].body
                 row == db'.sales[loc[p].lastInsertRowid]
             IN  /\ row.total_cost = CostOfLines(body.items, db.inventory)
                 /\ row.total_discount = DiscountOfLines(body.items, db.inventory)
                 /\ row.profit = body.total - row.total_cost
                 /\ \A i \in DOMAIN db.inventory :
                      db'.inventory[i].quantity
                        = db.inventory[i].quantity - QuantityOf(body.items, i)]_vars

\* the cost price recorded in the sale line that carries a sku
CostPriceOfSku(saleItems, sku) ==
    LET lines == {j \in 1..Len(saleItems) : saleItems[j].sku = sku}
    IN  IF lines = {} THEN 0
        ELSE saleItems[CHOOSE j \in lines : \A j2 \in lines : j <= j2].costPrice

\* sum over the returned items j..n of (cost price of the sale line with the
\* same sku x returned quantity)
RECURSIVE CostOfReturned(_, _, _)
CostOfReturned(returnedItems, saleItems, j) ==
    IF j > Len(returnedItems) THEN 0
    ELSE CostPriceOfSku(saleItems, returnedItems[j].sku) * returnedItems[j].quantity
         + CostOfReturned(returnedItems, saleItems, j + 1)

\* C14: the commit of an approval of a return that the call found pending,
\* and whose parent sale existed when the call looked it up, leaves the sale
\* with total = old total - return amount, total_cost = old total_cost - cost
\* of the returned items, profit = new total - new total_cost, and status
\* 'returned'
C14_ApprovalArithmetic ==
    [][\A p \in Procs :
          (/\ Commits(p)
           /\ loc[p].op = "update"
           /\ loc[p].body.status = "approved"
           /\ loc[p].returnRecord.status = "pending"
           /\ loc[p].sale # NoLoc)
          => \A k \in DOMAIN db.sales :
               db.sales[k].invoice_number = loc[p].returnRecord.invoice_number
               => LET old == db.sales[k]
                      new == db'.sales[k]
                      ret == db.returns[loc[p].body.returnId]
                  IN  /\ new.total = old.total - ret.amount
                      /\ new.total_cost
                           = old.total_cost - CostOfReturned(ret.items, old.items, 1)
                      /\ new.profit = new.total - new.total_cost
                      /\ new.status = "returned"]_vars

\* the only return of a sale of one unit, sold at its price, was approved
\* once: the sale is 'returned' with total, cost and profit all at zero
C14_Witness ==
    /\ \A p \in Procs : pc[p] = "idle"
    /\ \E r \in DOMAIN db.returns, k \in DOMAIN db.sales :
         /\ DOMAIN reversals = {r}
         /\ reversals[r] = 1
         /\ db.returns[r].status = "approved"
         /\ db.returns[r].amount = Subtotal(db.sales[k].items)
         /\ db.sales[k].invoice_number = db.returns[r].invoice_number
         /\ db.sales[k].status = "returned"
         /\ db.sales[k].total = 0
         /\ db.sales[k].total_cost = 0
         /\ db.sales[k].profit = 0

\* C15: the commit of an approval of a return that the call found pending
\* takes exactly the return amount from the lifetime_value of the customer
\* of the parent sale and leaves the other customers alone; when the parent
\* sale is a walk-in sale (customer id 0), or no sale carries the return's
\* invoice number, it changes no customer row
C15_LifetimeValue ==
    [][\A p \in Procs :
          (/\ Commits(p)
           /\ loc[p].op = "update"
           /\ loc[p].body.status = "approved"
           /\ loc[p].returnRecord.status = "pending")
          => LET ret == db.returns[loc[p].body.returnId]
                 buyers == {db.sales[k].customer_id : k \in
                              {j \in DOMAIN db.sales :
                                 db.sales[j].invoice_number = ret.invoice_number}} \ {0}
             IN  /\ DOMAIN db'.customers = DOMAIN db.customers
                 /\ \A c \in DOMAIN db.customers :
                      db'.customers[c].lifetime_value
                        = IF c \in buyers
                          THEN db.customers[c].lifetime_value - ret.amount
                          ELSE db.customers[c].lifetime_value]_vars

\* the return of a walk-in sale was approved: the sale is 'returned' and no
\* customer has lost lifetime value
C15_Witness ==
    /\ \A p \in Procs : pc[p] = "idle"
    /\ \E r \in DOMAIN reversals, k \in DOMAIN db.sales :
         /\ db.sales[k].customer_id = 0
         /\ db.sales[k].invoice_number = db.returns[r].invoice_number
         /\ db.sales[k].status = "returned"
         /\ db.returns[r].status = "approved"
    /\ \A c \in DOMAIN db.customers : db.customers[c].lifetime_value = 0

\* C16: the step that ends an updateReturnStatus call which failed (return
\* not found, or an error raised part-way) leaves every committed row as it
\* was: the return keeps its status, and the sale, the customer and the
\* ReturnedItem rows are unchanged
C16_FailedUpdateLeavesNoTrace ==
    [][\A p \in Procs :
          (/\ loc[p].op = "update"
           /\ loc[p].error # NoError
           /\ pc[p] # "idle"
           /\ pc'[p] = "idle")
          => db' = db]_vars

\* an approval was aborted after it had marked the ReturnedItem rows of its
\* pending return approved: it is about to roll back, and the committed rows
\* still read 'returned'
C16_Witness ==
    \E p \in Procs :
        /\ pc[p] = "rollback"
        /\ loc[p].op = "update"
        /\ loc[p].body.status = "approved"
        /\ loc[p].error # NoError
        /\ loc[p].body.returnId \in DOMAIN db.returns
        /\ db.returns[loc[p].body.returnId].status = "pending"
        /\ \E k \in DOMAIN tx[p].returned_items \cap DOMAIN db.returned_items :
             /\ tx[p].returned_items[k].condition = "approved"
             /\ db.returned_items[k].condition = "returned"

\* C17: the commit of a createReturn leaves the new Return with status
\* 'pending' and exactly one ReturnedItem row per submitted item, each with
\* condition 'returned'; and the Return row and its ReturnedItem rows reach
\* the committed tables only in that one step
C17_NewReturnIsPending ==
    [][/\ \A p \in Procs :
            (Commits(p) /\ loc[p].op = "return")
            => LET r == loc[p].returnId
                   rows == {k \in DOMAIN db'.returned_items :
                              db'.returned_items[k].return_id = r}
               IN  /\ r \in DOMAIN db'.returns
                   /\ db'.returns[r].status = "pending"
                   /\ Cardinality(rows) = Len(loc[p].body.items)
                   /\ \A k \in rows : db'.returned_items[k].condition = "returned"
       /\ (\A p \in Procs : ~Commits(p))
            => /\ db'.returns = db.returns
               /\ db'.returned_items = db.returned_items]_vars

C19_WritesUnderExplicitLock ==
    [][\A p \in Procs : \A t \in {"inventory", "sales", "returns"} :
          \A k \in DOMAIN db[t] :
             (/\ k \in DOMAIN tx'[p][t]
              /\ k \in DOMAIN tx[p][t] => tx'[p][t][k] # tx[p][t][k])
             => <<t, k>> \in locks[p]]_vars

\* C20: every transaction that a handler has opened eventually ends, by
\* commit or by rollback, with its row locks released; this includes two
\* sales that lock the same two items in opposite order; and the step that
\* ends an aborted transaction leaves the committed rows as they were
C20_TransactionsFinish ==
    /\ \A p \in Procs :
         (pc[p] # "idle") ~> (pc[p] = "idle" /\ locks[p] = {} /\ tx[p] = NoWrites)
    /\ [][\A p \in Procs : (pc[p] = "rollback" /\ pc'[p] = "idle") => db' = db]_vars

\* two sales wait for each other: each holds the lock of the inventory row
\* the other one asks for next
C20_Witness ==
    \E p \in Procs, q \in Procs :
        /\ p # q
        /\ pc[p] = "sale_select" /\ pc[q] = "sale_select"
        /\ Needs(p) # {} /\ Needs(p) \subseteq locks[q]
        /\ Needs(q) # {} /\ Needs(q) \subseteq locks[p]

\* C21: a gateway operation that fails with a transient connection error on
\* every attempt propagates the error only after three retries, made after
\* waits of 1s, 2s and 4s
C21_ThreeRetriesWithBackoff ==
    \A p \in Procs :
        (pc[p] = "op_throw" /\ loc[p].error \in ConnectErrors)
        => /\ loc[p].waits = <<1000, 2000, 4000>>
           /\ loc[p].attempt = 4

\* errors of the server that no retry can cure: a constraint violation
\* (SQLSTATE class 23) or a value of the wrong syntax (class 22)
NonTransient(error) == error.code \in {"23503", "22P02"}

\* C22: a gateway operation that fails with a non-transient error is not
\* attempted again: from the catch block the error is propagated to the
\* caller, with no backoff wait and no further attempt
C22_NonTransientNotRetried ==
    [][\A p \in Procs :
          (pc[p] = "retry_catch" /\ NonTransient(loc[p].error))
          => /\ pc'[p] \in {"retry_catch", "op_throw"}
             /\ loc'[p] = loc[p]]_vars

\* C29: a statement executed through run() takes effect at most once per
\* call, whatever fails after the statement succeeded
C29_RunTakesEffectAtMostOnce ==
    \A p \in Procs :
        (loc[p].op = "run") => loc[p].applied <= 1

\* the handlers that are inside a gateway operation
InGateway(p) == loc[p].op \in {"run", "get", "transaction"}

\* C30: a gateway operation holds at most one pooled connection and has
\* released every connection it acquired, exactly once, when it returns or
\* throws, and between the attempts of a retried operation
C30_ConnectionsReleased ==
    \A p \in Procs :
        InGateway(p)
        => /\ loc[p].checkedOut \in {0, 1}
           /\ pc[p] \in {"op_return", "op_throw", "retry_catch", "run_connect",
                          "tx_connect", "pool_query"}
              => loc[p].checkedOut = 0

\* a transaction whose COMMIT failed and whose ROLLBACK failed too is about
\* to throw
C30_Witness ==
    \E p \in Procs :
        /\ pc[p] = "op_throw"
        /\ loc[p].op = "transaction"
        /\ loc[p].thrownBy = "COMMIT"
        /\ loc[p].rollback = "failed"

\* the sales the summary is about: completed, dated within the range when a
\* range is asked for, and of the seller when a seller is asked for
InSummary(k, query) ==
    /\ db.sales[k].status = "completed"
    /\ ~(query.startDate # 0 /\ query.endDate # 0
          /\ (db.sales[k].date < query.startDate \/ db.sales[k].date > query.endDate))
    /\ ~(query.sellerId # 0 /\ db.sales[k].seller_id # query.sellerId)

RECURSIVE TotalOver(_, _)
TotalOver(ids, column) ==
    IF ids = {} THEN 0
    ELSE LET k == CHOOSE x \in ids : TRUE
         IN  db.sales[k][column] + TotalOver(ids \ {k}, column)

C24_UnauthenticatedChangesNothing ==
    [][\A p \in Procs : Commits(p) => loc[p].body.session]_vars

\* the totals of the sales of customer c the client has credited
RECURSIVE CreditedTo(_, _)
CreditedTo(ids, c) ==
    IF ids = {} THEN 0
    ELSE LET k == CHOOSE x \in ids : TRUE
         IN  (IF db.sales[k].customer_id = c THEN Subtotal(db.sales[k].items) ELSE 0)
             + CreditedTo(ids \ {k}, c)

\* the amounts of the returns whose approval took its amount from customer c
RECURSIVE DebitedFrom(_, _)
DebitedFrom(ids, c) ==
    IF ids = {} THEN 0
    ELSE LET r == CHOOSE x \in ids : TRUE
         IN  (IF db.sales[db.returns[r].invoice_id].customer_id = c
              THEN reversals[r] * db.returns[r].amount ELSE 0)
             + DebitedFrom(ids \ {r}, c)

\* C25: once every request has been answered and the client has credited
\* every sale, the lifetime value of a customer is its initial value plus the
\* totals of the customer's sales minus the amounts of the approved returns
C25_LifetimeValueLedger ==
    (/\ \A p \in Procs : pc[p] = "idle"
     /\ DOMAIN db.sales \subseteq started.credited)
    => \A c \in DOMAIN db.customers :
          db.customers[c].lifetime_value =
              InitCustomers[c].lifetime_value + CreditedTo(DOMAIN db.sales, c)
              - DebitedFrom(DOMAIN reversals, c)

RECURSIVE SnapshotQuantity(_, _)
SnapshotQuantity(items, sku) ==
    IF items = <<>> THEN 0
    ELSE (IF Head(items).sku = sku THEN Head(items).quantity ELSE 0)
         + SnapshotQuantity(Tail(items), sku)

\* the quantity of a sku over the returned_items rows with the keys given
RECURSIVE HeldQuantity(_, _)
HeldQuantity(keys, sku) ==
    IF keys = {} THEN 0
    ELSE LET k == CHOOSE x \in keys : TRUE
         IN  (IF db.returned_items[k].sku = sku
              THEN db.returned_items[k].quantity ELSE 0)
             + HeldQuantity(keys \ {k}, sku)

RowsOfReturn(r) == {k \in DOMAIN db.returned_items : db.returned_items[k].return_id = r}

\* C27: for every approved return, the returned_items rows of the return
\* hold, per sku, the quantity of the return's snapshot, and all have the
\* condition 'approved'
C27_ApprovedItemsMatchSnapshot ==
    \A r \in DOMAIN db.returns :
        db.returns[r].status = "approved"
        => /\ \A k \in RowsOfReturn(r) : db.returned_items[k].condition = "approved"
           /\ \A sku \in {Skus(i) : i \in 1..3} :
                HeldQuantity(RowsOfReturn(r), sku)
                    = SnapshotQuantity(db.returns[r].items, sku)

\* C28: after an approved return the total and the total cost of the parent
\* sale are not negative
C28_SaleTotalsNotNegative ==
    \A k \in DOMAIN db.sales :
        db.sales[k].status = "returned"
        => /\ db.sales[k].total >= 0
           /\ db.sales[k].total_cost >= 0

============================================================================
